---- MODULE Spec2Model ----
(***************************************************************************)
(* The STL viewer: App (src/unnamed/part_000), FileUpload / ControlsPanel  *)
(* (src/src/features/file-upload/FileUpload.tsx) and STLViewer             *)
(* (src/src/features/stl-viewer/STLViewer.tsx) as one state machine.       *)
(*                                                                         *)
(* React is modelled by what it does to this code: a state setter marks    *)
(* the component that owns the state as pending; Render commits the        *)
(* current state as the closure `ren` the effects read, and queues the     *)
(* effects whose dependency lists changed (cleanups first, then bodies in  *)
(* source order); each effect body is one action.  Numbers with a          *)
(* fractional part are kept in tenths (lightingIntensity, rotationSpeed)   *)
(* and mesh rotation in units of 0.001 rad.                                *)
(***************************************************************************)
EXTENDS Integers, Sequences, FiniteSets, TLC

\* ---------------------------------------------------------------- bounds
\* User events are taken while the loader runs so far and the reads in flight
\* (each of which ends in a render that may run the loader) are fewer than this.
MaxLoads == 2
\* Frame callbacks are served while fewer than MaxFrames were requested.
MaxFrames == 2
\* File reads in flight at once.
MaxReads == 2
\* The showWireframe switch is flipped while the loader ran fewer times than this.
MaxToggleLoads == 4
\* Fullscreen requests and exits the browser has not settled yet.
MaxRequests == 2
\* Vertices of a parsed geometry.
MaxVertices == 3
\* Runs of the loader and reads in flight around a Reset.
MaxResetLoads == 3
\* Runs of loadSTL that are counted; no user of the bounds above gets there.
MaxCountedLoads == 8
\* Triangles of a binary STL file given to StatsOverlay.
MaxTriangles == 120
\* The sliders are dragged while the loader runs so far and the reads in
\* flight are fewer than this.
MaxSliderLoads == 3

\* ------------------------------------------------------- program constants
\* new THREE.AmbientLight(0xffffff, 0.6), in tenths
AmbientIntensity == 6
\* new THREE.DirectionalLight(0xffffff, 0.8), in tenths
DirectionalIntensity == 8
\* lightingIntensity: 1.0, in tenths
DefaultLighting == 10
\* rotationSpeed * 0.01, for a speed in tenths and a rotation in 0.001 rad
RotationFactor == 1

NoFile == [fid |-> 0, ok |-> FALSE]
NoObj == 0

ParseMsg == "Failed to parse STL file. Please ensure it is a valid STL file."
ReadMsg == "Failed to load STL file. Please try again."
NoError == "null"
\* STLViewer.tsx 113
FullscreenMsg == "Fullscreen mode is not supported or was denied."

\* What the user last handed to a handler of the page: the name of a file
\* (its characters, one by one) given to the file input or dropped, or the
\* key of a control of the panel.
NoInput == [via |-> "none", name |-> <<>>, key |-> "none"]
\* A file name the file dialog offers under accept=".stl".
StlName == <<"a", ".", "s", "t", "l">>

defaultControls ==
  [showWireframe |-> FALSE, showNormals |-> FALSE, showGrid |-> TRUE,
   showAxes |-> TRUE, backgroundColor |-> "#0f172a", modelColor |-> "#3b82f6",
   lightingIntensity |-> DefaultLighting, rotationSpeed |-> 0]

\* The inputs the control panel is driven with.
ToggleKeys == {"showWireframe", "showNormals", "showGrid", "showAxes"}
BackgroundColors == {"#0f172a", "#1e1b4b"}
ModelColors == {"#3b82f6", "#10b981"}
LightingValues == {20}
RotationValues == {50}
\* What an uploaded file turns out to be: a buffer the loader parses, a buffer
\* the loader throws on, or a file whose arrayBuffer() promise rejects.
FileKinds == {"valid", "malformed", "unreadable"}
\* Where a run of loadSTL throws, past the parse ("none": nowhere).
BuildFailures == {"none", "mesh", "wireframe", "normals"}

VARIABLES
  stlFile,        \* App: useState<STLFile | null>
  isLoading,      \* App: useState(false)
  error,          \* App: useState<string | null>
  controls,       \* App: useState({...})
  reads,          \* file.arrayBuffer() promises not yet settled
  nextFid,        \* identity of the next STLFile object
  isInitialized,  \* STLViewer: useState(false)
  phase,          \* "unmounted" | "mounted" | "gone"
  ren,            \* the props and state of the last committed render
  pending,        \* components / values with a state update not yet rendered
  queue,          \* effects of the last commit still to run, in order
  viewer,         \* the refs of STLViewer and the three.js objects behind them
  loads,          \* runs of loadSTL so far
  lastLoad,       \* how the last run of loadSTL ended, and on which buffer
  trigger,        \* the last thing that happened from outside React
  input,          \* what that event carried: a file name or a control key
  roundTrip,      \* the showWireframe toggles in a row, and what preceded them
  isFullscreen,   \* STLViewer: useState(false)
  geometry,       \* a BufferGeometry between loader.parse and new THREE.Mesh
  stats           \* StatsOverlay: the buffer it is given and the count it shows

vars == <<stlFile, isLoading, error, controls, reads, nextFid, isInitialized,
          phase, ren, pending, queue, viewer, loads, lastLoad, trigger,
          input, roundTrip, isFullscreen, geometry, stats>>

\* What the effects and the frame callback leave alone.
eventVars == <<trigger, input, roundTrip>>

appVars == <<stlFile, isLoading, error, controls, reads, nextFid>>

\* ------------------------------------------------------------- the viewer
\* Before the first effect runs every ref is null.
emptyViewer ==
  [sceneRef |-> FALSE, cameraRef |-> FALSE, rendererRef |-> FALSE,
   controlsRef |-> FALSE,
   meshRef |-> NoObj, wireframeRef |-> NoObj, normalsHelperRef |-> NoObj,
   gridHelperRef |-> FALSE, axesHelperRef |-> FALSE,
   animationFrameRef |-> 0,
   \* the scene: its loaded children (ids into objs), lights, helpers, background
   children |-> {}, objs |-> <<>>,
   ambient |-> 0, directional |-> 0,
   gridVisible |-> FALSE, axesVisible |-> FALSE, background |-> "null",
   rendererDisposed |-> 0, controlsDisposed |-> 0,
   cameraTarget |-> NoObj,
   \* the browser: frame callbacks requested and not yet run or cancelled
   rafPending |-> {}, rafNext |-> 1,
   \* the controls object the animate closure captured
   animateControls |-> defaultControls,
   resizeListeners |-> 0,
   \* the window's inner size, the canvas's client size, and what the camera
   \* and the renderer were last given (sizes are <<width, height>>)
   window |-> <<4, 4>>, canvas |-> <<4, 3>>,
   aspect |-> <<0, 0>>, rendererSize |-> <<0, 0>>,
   \* the document: its fullscreen element, the fullscreen requests and exits
   \* the browser has not settled, the events it has not dispatched
   fullscreenElement |-> FALSE, requests |-> <<>>, events |-> <<>>,
   \* the calls the last handler made, in order
   log |-> <<>>]

Call(by, op, id) == [by |-> by, op |-> op, id |-> id]

Logged(v, by, op, id) == [v EXCEPT !.log = Append(@, Call(by, op, id))]

\* The viewer without the record of the last handler's calls.
Quiet(v) == [v EXCEPT !.log = <<>>]

Snapshot ==
  [stlFile |-> stlFile, controls |-> controls, isInitialized |-> isInitialized,
   isLoading |-> isLoading]

noRoundTrip == [n |-> 0, refs |-> <<NoObj, NoObj, NoObj>>, objs |-> <<>>]

\* boundingBox is <<>> for null and <<min, max>> once computed.
noGeometry == [position |-> <<>>, boundingBox |-> <<>>, stage |-> "none"]

\* The page before it is mounted.
InitPage ==
  /\ stlFile = NoFile
  /\ isLoading = FALSE
  /\ error = NoError
  /\ controls = defaultControls
  /\ reads = <<>>
  /\ nextFid = 1
  /\ isInitialized = FALSE
  /\ phase = "unmounted"
  /\ ren = Snapshot
  /\ pending = {}
  /\ queue = <<>>
  /\ viewer = emptyViewer
  /\ loads = 0
  /\ lastLoad = [outcome |-> "none", streak |-> 0, file |-> NoFile.fid]
  /\ trigger = "none"
  /\ input = NoInput
  /\ roundTrip = noRoundTrip
  /\ isFullscreen = FALSE

\* StatsOverlay renders nothing while stlFile is null (StatsOverlay.tsx 10).
noStats == [triangles |-> 0, byteLength |-> 0, triangleCount |-> 0,
            stage |-> "none"]

Init == InitPage /\ geometry = noGeometry /\ stats = noStats

\* --------------------------------------------------- STLViewer: render loop
\* animate (STLViewer.tsx 85-99): requests the next frame and keeps its id,
\* rotates the mesh by the rotationSpeed of the controls its closure holds,
\* then updates the orbit controller and renders.
animate(v) ==
  LET id == v.rafNext
      a == [v EXCEPT !.rafPending = @ \cup {id}, !.rafNext = id + 1,
                     !.animationFrameRef = id]
      b == IF a.meshRef # NoObj /\ a.animateControls.rotationSpeed > 0
           THEN [a EXCEPT !.objs[a.meshRef].rotation =
                            @ + a.animateControls.rotationSpeed * RotationFactor]
           ELSE a
      c == IF b.controlsRef THEN Logged(b, "animate", "controls.update", 0) ELSE b
  IN IF c.rendererRef /\ c.sceneRef /\ c.cameraRef
     THEN Logged(c, "animate", "renderer.render", 0)
     ELSE c

\* initThreeJS with the isInitialized test of its guard left out.
initThreeJSUnguarded(v, r) ==
  animate([v EXCEPT
    !.sceneRef = TRUE, !.children = {},
    !.cameraRef = TRUE,
    !.aspect = v.canvas,
    !.rendererRef = TRUE, !.rendererDisposed = 0, !.rendererSize = v.canvas,
    !.controlsRef = TRUE, !.controlsDisposed = 0,
    !.ambient = AmbientIntensity, !.directional = DirectionalIntensity,
    !.gridHelperRef = TRUE, !.gridVisible = TRUE,
    !.axesHelperRef = TRUE, !.axesVisible = TRUE,
    !.background = r.controls.backgroundColor,
    !.animateControls = r.controls])

\* initThreeJS (STLViewer.tsx 32-103) under the closure r of the render that
\* made it.  canvasRef.current is set whenever an effect runs.
initThreeJS(v, r) ==
  IF r.isInitialized THEN v
  ELSE animate([v EXCEPT
         !.sceneRef = TRUE, !.children = {},
         !.cameraRef = TRUE,
         !.aspect = v.canvas,
         !.rendererRef = TRUE, !.rendererDisposed = 0, !.rendererSize = v.canvas,
         !.controlsRef = TRUE, !.controlsDisposed = 0,
         !.ambient = AmbientIntensity, !.directional = DirectionalIntensity,
         !.gridHelperRef = TRUE, !.gridVisible = TRUE,
         !.axesHelperRef = TRUE, !.axesVisible = TRUE,
         !.background = r.controls.backgroundColor,
         !.animateControls = r.controls])

\* dispose() of the geometry and of the material of object id.
disposeObj(v, by, id) ==
  Logged([v EXCEPT !.objs[id].geo = @ + 1, !.objs[id].mat = @ + 1],
         by, "dispose", id)

\* The disposals of the cleanup (STLViewer.tsx 166-191).
cleanupDisposals(v) ==
  LET c == IF v.controlsRef
           THEN Logged([v EXCEPT !.controlsDisposed = @ + 1],
                       "cleanup", "controls.dispose", 0)
           ELSE v
      d == IF c.rendererRef
           THEN Logged([c EXCEPT !.rendererDisposed = @ + 1],
                       "cleanup", "renderer.dispose", 0)
           ELSE c
      e == IF d.meshRef # NoObj THEN disposeObj(d, "cleanup", d.meshRef) ELSE d
      f == IF e.wireframeRef # NoObj
           THEN disposeObj(e, "cleanup", e.wireframeRef) ELSE e
  IN IF f.normalsHelperRef # NoObj
     THEN disposeObj(f, "cleanup", f.normalsHelperRef) ELSE f

\* removeEventListener('resize', handleResize) (STLViewer.tsx 163).
removeResizeListener(v) ==
  [v EXCEPT !.resizeListeners = IF @ > 0 THEN @ - 1 ELSE 0]

\* cancelAnimationFrame(animationFrameRef.current) (STLViewer.tsx 164).
cancelFrame(v) ==
  Logged([v EXCEPT !.rafPending = @ \ {v.animationFrameRef}],
         "cleanup", "cancelAnimationFrame", v.animationFrameRef)

\* The cleanup with its cancelAnimationFrame moved behind the disposals.
cleanupCancelLast(v) == cancelFrame(cleanupDisposals(removeResizeListener(v)))

\* The cleanup of the initThreeJS effect (STLViewer.tsx 162-192).
cleanup(v) == cleanupDisposals(cancelFrame(removeResizeListener(v)))

\* ------------------------------------------------------ STLViewer: loadSTL
\* The disposal of an old object without its scene.remove.
disposeInPlace(v, id) == disposeObj(v, "loadSTL", id)

\* scene.remove(obj), then dispose of its geometry and material.
removeAndDispose(v, id) ==
  disposeObj(Logged([v EXCEPT !.children = @ \ {id}], "loadSTL", "remove", id),
             "loadSTL", id)

\* "Clear previous mesh" that clears the mesh and forgets the two overlays.
clearMeshOnly(v) ==
  IF v.meshRef # NoObj THEN removeAndDispose(v, v.meshRef) ELSE v

\* "Clear previous mesh" (STLViewer.tsx 216-236).  No ref is set to null.
clearPrevious(v) ==
  LET a == IF v.meshRef # NoObj THEN removeAndDispose(v, v.meshRef) ELSE v
      b == IF a.wireframeRef # NoObj
           THEN removeAndDispose(a, a.wireframeRef) ELSE a
  IN IF b.normalsHelperRef # NoObj
     THEN removeAndDispose(b, b.normalsHelperRef) ELSE b

newObj(kind, src, color, visible) ==
  [kind |-> kind, src |-> src, geo |-> 0, mat |-> 0, visible |-> visible,
   color |-> color, rotation |-> 0]

\* scene.add(obj) of a new object.
addObj(v, o) ==
  LET id == Len(v.objs) + 1
  IN Logged([v EXCEPT !.objs = Append(@, o), !.children = @ \cup {id}],
            "loadSTL", "add", id)

\* "Create new mesh" (STLViewer.tsx 239-249).
createMesh(v, r) ==
  LET a == addObj(v, newObj("mesh", r.stlFile.fid, r.controls.modelColor, TRUE))
  IN [a EXCEPT !.meshRef = Len(a.objs)]

\* "Create wireframe" without line 260: the overlay keeps three.js's default,
\* visible.
createWireframeVisible(v, r) ==
  LET a == addObj(v, newObj("wireframe", r.stlFile.fid, "#ffffff", TRUE))
  IN [a EXCEPT !.wireframeRef = Len(a.objs)]

\* "Create wireframe" (STLViewer.tsx 252-262).
createWireframe(v, r) ==
  LET a == addObj(v, newObj("wireframe", r.stlFile.fid, "#ffffff",
                            r.controls.showWireframe))
  IN [a EXCEPT !.wireframeRef = Len(a.objs)]

\* "Create normals helper" (STLViewer.tsx 265-268).
createNormalsHelper(v, r) ==
  LET a == addObj(v, newObj("normals", r.stlFile.fid, "#ff0000",
                            r.controls.showNormals))
  IN [a EXCEPT !.normalsHelperRef = Len(a.objs)]

\* "Reset camera position" (STLViewer.tsx 271-284).
resetCamera(v) ==
  IF v.cameraRef /\ v.controlsRef
  THEN Logged([v EXCEPT !.cameraTarget = v.meshRef],
              "loadSTL", "controls.update", 0)
  ELSE v

\* How a run of loadSTL ends: loader.parse throws on a malformed buffer;
\* past the parse, `fail` names the statement that throws, if any.
loadOutcome(file, fail) ==
  IF ~file.ok THEN "parse" ELSE IF fail = "none" THEN "ok" ELSE fail

\* loadSTL with "Clear previous mesh" ahead of loader.parse.
loadSTLClearFirst(v, r, outcome) ==
  LET a == clearPrevious(v) IN
  IF outcome \in {"parse", "mesh"} THEN a
  ELSE LET b == createMesh(a, r) IN
    IF outcome = "wireframe" THEN b
    ELSE LET c == createWireframe(b, r) IN
      IF outcome = "normals" THEN c
      ELSE resetCamera(createNormalsHelper(c, r))

\* The try block of loadSTL (STLViewer.tsx 199-285) up to the statement that
\* throws: what it leaves behind when the catch takes over.
loadSTL(v, r, outcome) ==
  IF outcome = "parse" THEN v
  ELSE LET a == clearPrevious(v) IN
    IF outcome = "mesh" THEN a
    ELSE LET b == createMesh(a, r) IN
      IF outcome = "wireframe" THEN b
      ELSE LET c == createWireframe(b, r) IN
        IF outcome = "normals" THEN c
        ELSE resetCamera(createNormalsHelper(c, r))

\* ------------------------------------------- STLViewer: the controls effect
\* The body of the controls effect past its guard (STLViewer.tsx 298-333).
applyControls(v, r) ==
  LET c == r.controls
      a == IF v.meshRef # NoObj
           THEN [v EXCEPT !.objs[v.meshRef].color = c.modelColor] ELSE v
      b == IF a.wireframeRef # NoObj
           THEN [a EXCEPT !.objs[a.wireframeRef].visible = c.showWireframe]
           ELSE a
      d == IF b.normalsHelperRef # NoObj
           THEN [b EXCEPT !.objs[b.normalsHelperRef].visible = c.showNormals]
           ELSE b
      e == IF d.gridHelperRef THEN [d EXCEPT !.gridVisible = c.showGrid] ELSE d
      f == IF e.axesHelperRef THEN [e EXCEPT !.axesVisible = c.showAxes] ELSE e
  IN [f EXCEPT !.background = c.backgroundColor,
               !.ambient = c.lightingIntensity,
               !.directional = c.lightingIntensity]

\* ------------------------------------------------------------------ React
\* A state setter that re-renders its component whatever the value.
Rerender(old, new, who) == {who}

\* A state setter re-renders its component only when the value changes.
Changed(old, new, who) == IF old # new THEN {who} ELSE {}

\* onError={(err) => setError(err)} (part_000 125).
onError(msg) ==
  /\ error' = msg
  /\ pending' = pending \cup Changed(error, msg, "app")

\* An event from outside React: what it was, what it carried, and what it
\* makes of the run of showWireframe toggles.
Outside(t, in, rt) ==
  /\ trigger' = t
  /\ input' = in
  /\ roundTrip' = rt
  /\ UNCHANGED <<isFullscreen, geometry, stats>>

\* The first render of App and STLViewer: every effect is queued.
Mount ==
  /\ phase = "unmounted"
  /\ phase' = "mounted"
  /\ ren' = Snapshot
  /\ queue' = <<"init", "load", "controls">>
  /\ pending' = {}
  /\ viewer' = Quiet(viewer)
  /\ UNCHANGED <<appVars, isInitialized, loads, lastLoad>>
  /\ Outside("mount", NoInput, noRoundTrip)

\* The dependency lists of the three effects of STLViewer, compared with the
\* last commit.  initThreeJS is useCallback(.., [isInitialized,
\* controls.backgroundColor]) (STLViewer.tsx 103, 193); onError is a new
\* function at every render of App (part_000 125; STLViewer.tsx 293);
\* setControls always stores a new object (STLViewer.tsx 335).
initDepsChanged ==
  \/ isInitialized # ren.isInitialized
  \/ controls.backgroundColor # ren.controls.backgroundColor

loadDepsChanged ==
  \/ stlFile # ren.stlFile
  \/ "app" \in pending
  \/ isInitialized # ren.isInitialized

controlsDepsChanged ==
  \/ "controls" \in pending
  \/ isInitialized # ren.isInitialized

\* A re-render and its commit: cleanups of the changed effects are queued
\* before the effect bodies, bodies in source order.
Render ==
  /\ phase = "mounted"
  /\ queue = <<>>
  /\ pending # {}
  /\ ren' = Snapshot
  /\ queue' = (IF initDepsChanged THEN <<"cleanupInit", "init">> ELSE <<>>)
              \o (IF loadDepsChanged THEN <<"load">> ELSE <<>>)
              \o (IF controlsDepsChanged THEN <<"controls">> ELSE <<>>)
  /\ pending' = {}
  /\ viewer' = Quiet(viewer)
  /\ UNCHANGED <<appVars, isInitialized, phase, loads, lastLoad>>
  /\ UNCHANGED <<eventVars, isFullscreen, geometry, stats>>

Running(e) == queue # <<>> /\ Head(queue) = e

\* The cleanup of the initThreeJS effect, before the effect runs again.
InitCleanup ==
  /\ Running("cleanupInit")
  /\ viewer' = cleanup(Quiet(viewer))
  /\ queue' = Tail(queue)
  /\ UNCHANGED <<appVars, isInitialized, phase, ren, pending, loads, lastLoad>>
  /\ UNCHANGED <<eventVars, isFullscreen, geometry, stats>>

\* useEffect(() => { initThreeJS(); ... addEventListener('resize') ... })
\* (STLViewer.tsx 148-160); setIsInitialized(true) is line 102.
InitEffect ==
  /\ Running("init")
  /\ viewer' = [initThreeJS(Logged(Quiet(viewer), "effect", "initThreeJS", 0), ren)
                  EXCEPT !.resizeListeners = @ + 1]
  /\ isInitialized' = TRUE
  /\ pending' = pending \cup Changed(isInitialized, TRUE, "viewer")
  /\ queue' = Tail(queue)
  /\ UNCHANGED <<appVars, phase, ren, loads, lastLoad>>
  /\ UNCHANGED <<eventVars, isFullscreen, geometry, stats>>

\* The load effect (STLViewer.tsx 195-293): the guard of line 196, then
\* loadSTL, which has no await and so runs to its end inside the effect.
LoadEffect ==
  /\ Running("load")
  /\ queue' = Tail(queue)
  /\ IF viewer.sceneRef /\ ren.stlFile # NoFile /\ ren.isInitialized
     THEN \E fail \in BuildFailures :
            LET out == loadOutcome(ren.stlFile, fail) IN
            /\ viewer' = loadSTL(Quiet(viewer), ren, out)
            /\ loads' = IF loads < MaxCountedLoads THEN loads + 1 ELSE loads
            /\ lastLoad' = [outcome |-> out, file |-> ren.stlFile.fid,
                            streak |-> IF out # "ok" THEN 0
                                       ELSE IF lastLoad.streak < 2
                                            THEN lastLoad.streak + 1
                                            ELSE lastLoad.streak]
            /\ IF out = "ok" THEN UNCHANGED <<error, pending>>
                             ELSE onError(ParseMsg)
     ELSE /\ viewer' = Quiet(viewer)
          /\ UNCHANGED <<error, pending, loads, lastLoad>>
  /\ UNCHANGED <<stlFile, isLoading, controls, reads, nextFid, isInitialized,
                 phase, ren>>
  /\ UNCHANGED <<eventVars, isFullscreen, geometry, stats>>

\* The controls effect (STLViewer.tsx 295-335).
ControlsEffect ==
  /\ Running("controls")
  /\ queue' = Tail(queue)
  /\ viewer' = IF viewer.sceneRef /\ ren.isInitialized
               THEN applyControls(Quiet(viewer), ren)
               ELSE Quiet(viewer)
  /\ UNCHANGED <<appVars, isInitialized, phase, ren, pending, loads, lastLoad>>
  /\ UNCHANGED <<eventVars, isFullscreen, geometry, stats>>

\* The browser runs a requested frame callback.
Frame ==
  /\ phase # "unmounted"
  /\ queue = <<>>
  /\ viewer.rafNext <= MaxFrames
  /\ \E id \in viewer.rafPending :
       viewer' = animate([Quiet(viewer) EXCEPT !.rafPending = @ \ {id}])
  /\ UNCHANGED <<appVars, isInitialized, phase, ren, pending, queue, loads,
                 lastLoad>>
  /\ UNCHANGED <<eventVars, isFullscreen, geometry, stats>>

\* Unmounting STLViewer runs the cleanup of the initThreeJS effect.
Unmount ==
  /\ phase = "mounted"
  /\ queue = <<>>
  /\ phase' = "gone"
  /\ pending' = {}
  /\ viewer' = cleanup(Quiet(viewer))
  /\ UNCHANGED <<appVars, isInitialized, ren, queue, loads, lastLoad>>
  /\ Outside("unmount", NoInput, noRoundTrip)

\* -------------------------------------------------------------- the shell
\* The page is at rest and the user may act.
Idle ==
  /\ phase = "mounted"
  /\ queue = <<>>
  /\ pending = {}

\* The user acts while the bound on loader runs leaves room for one more.
MayAct == Idle /\ loads + Len(reads) < MaxLoads

\* handleFileUpload up to its await (part_000 34-39).
handleFileUpload(file) ==
  /\ isLoading' = TRUE
  /\ error' = NoError
  /\ pending' = Changed(isLoading, TRUE, "app") \cup Changed(error, NoError, "app")
  /\ reads' = Append(reads, file.kind)
  /\ viewer' = Quiet(viewer)
  /\ UNCHANGED <<stlFile, controls, nextFid, isInitialized, phase, ren, queue,
                 loads, lastLoad>>

\* The file dialog under accept=".stl" (FileUpload.tsx 77-83) hands
\* handleFileSelect a file named *.stl.
StartUpload(kind) ==
  /\ MayAct
  /\ Len(reads) < MaxReads
  /\ handleFileUpload([name |-> StlName, kind |-> kind])
  /\ Outside("upload", [via |-> "select", name |-> StlName, key |-> "none"],
             noRoundTrip)

Without(rs, i) == SubSeq(rs, 1, i - 1) \o SubSeq(rs, i + 1, Len(rs))

\* handleFileUpload past its await (part_000 40-52): the read resolved or
\* rejected.
ReadDone(i) ==
  /\ Idle
  /\ i \in 1..Len(reads)
  /\ reads' = Without(reads, i)
  /\ isLoading' = FALSE
  /\ IF reads[i] = "unreadable"
     THEN /\ error' = ReadMsg
          /\ pending' = Changed(error, ReadMsg, "app")
                        \cup Changed(isLoading, FALSE, "app")
          /\ UNCHANGED <<stlFile, nextFid>>
     ELSE /\ stlFile' = [fid |-> nextFid, ok |-> reads[i] = "valid"]
          /\ nextFid' = nextFid + 1
          /\ pending' = {"app"}
          /\ UNCHANGED error
  /\ viewer' = Quiet(viewer)
  /\ UNCHANGED <<controls, isInitialized, phase, ren, queue, loads, lastLoad>>
  /\ Outside("read", NoInput, noRoundTrip)

\* ControlsPanel is rendered only while stlFile is set (part_000 128-136).
PanelShown == MayAct /\ ren.stlFile # NoFile

\* onControlsChange={setControls} (part_000 131): the panel always hands
\* over a new object.
onControlsChange(c) ==
  /\ controls' = c
  /\ pending' = {"app", "controls"}
  /\ viewer' = Quiet(viewer)
  /\ UNCHANGED <<stlFile, isLoading, error, reads, nextFid, isInitialized,
                 phase, ren, queue, loads, lastLoad>>

\* The user touched the control named key.
Panel(key) == [via |-> "panel", name |-> <<>>, key |-> key]

\* The run of showWireframe toggles after one more of them: the first of a
\* run keeps the objects the refs held before it.
oneMoreToggle ==
  IF roundTrip.n \in 1..2
  THEN [roundTrip EXCEPT !.n = @ + 1]
  ELSE [n |-> 1,
        refs |-> <<viewer.meshRef, viewer.wireframeRef, viewer.normalsHelperRef>>,
        objs |-> viewer.objs]

\* FileUpload.tsx 112-117
handleToggle(key) ==
  /\ PanelShown
  /\ onControlsChange([ren.controls EXCEPT ![key] = ~@])
  /\ Outside("controls", Panel(key),
             IF key = "showWireframe" THEN oneMoreToggle ELSE noRoundTrip)

\* A colour handler that writes the value into both colour fields.
handleColorChangeBoth(key, value) ==
  /\ PanelShown
  /\ onControlsChange([ren.controls EXCEPT !.backgroundColor = value,
                                           !.modelColor = value])
  /\ Outside("controls", Panel(key), noRoundTrip)

\* FileUpload.tsx 119-124
handleColorChange(key, value) ==
  /\ PanelShown
  /\ onControlsChange([ren.controls EXCEPT ![key] = value])
  /\ Outside("controls", Panel(key), noRoundTrip)

\* FileUpload.tsx 126-131
handleSliderChange(key, value) ==
  /\ PanelShown
  /\ onControlsChange([ren.controls EXCEPT ![key] = value])
  /\ Outside("controls", Panel(key), noRoundTrip)

\* The body of handleReset (part_000 55-68).
resetState ==
  /\ stlFile' = NoFile
  /\ error' = NoError
  /\ controls' = defaultControls
  /\ pending' = {"app", "controls"}
  /\ viewer' = Quiet(viewer)
  /\ UNCHANGED <<isLoading, reads, nextFid, isInitialized, phase, ren, queue,
                 loads, lastLoad>>
  /\ Outside("reset", NoInput, noRoundTrip)

\* part_000 55-68; the button is disabled while isLoading.
handleReset ==
  /\ MayAct
  /\ ~ren.isLoading
  /\ resetState

Next ==
  \/ Mount
  \/ Render
  \/ InitCleanup
  \/ InitEffect
  \/ LoadEffect
  \/ ControlsEffect
  \/ Frame
  \/ Unmount
  \/ \E kind \in FileKinds : StartUpload(kind)
  \/ \E i \in 1..MaxReads : ReadDone(i)
  \/ \E key \in ToggleKeys : handleToggle(key)
  \/ \E value \in BackgroundColors : handleColorChange("backgroundColor", value)
  \/ \E value \in ModelColors : handleColorChange("modelColor", value)
  \/ \E value \in LightingValues : handleSliderChange("lightingIntensity", value)
  \/ \E value \in RotationValues : handleSliderChange("rotationSpeed", value)
  \/ handleReset

Spec == Init /\ [][Next]_vars

\* ------------------------------------------------- fullscreen and resize
\* The browser lays the page out: the viewport is the window, or the whole
\* screen while an element is fullscreen; the canvas is sized to its
\* container, which fills the screen while it is the fullscreen element and
\* otherwise the window less the header above it.
ScreenSize == <<6, 4>>
WindowSizes == {<<4, 4>>, ScreenSize}

viewportOf(win, fs) == IF fs THEN ScreenSize ELSE win

canvasOf(win, fs) == IF fs THEN ScreenSize ELSE <<win[1], win[2] - 1>>

\* What the browser dispatches when the fullscreen element of v changes to
\* fs: 'resize' if the viewport changes size with it, then 'fullscreenchange'.
fullscreenEvents(v, fs) ==
  (IF viewportOf(v.window, fs) # viewportOf(v.window, v.fullscreenElement)
   THEN <<"resize">> ELSE <<>>) \o <<"fullscreenchange">>

\* The document after its fullscreen element changed to fs.
laidOut(v, fs) ==
  [v EXCEPT !.fullscreenElement = fs,
            !.canvas = canvasOf(v.window, fs),
            !.events = @ \o fullscreenEvents(v, fs)]

\* handleResize (STLViewer.tsx 152-158)
handleResize(v) ==
  IF ~v.cameraRef \/ ~v.rendererRef THEN v
  ELSE Logged([v EXCEPT !.aspect = v.canvas, !.rendererSize = v.canvas],
              "handleResize", "renderer.setSize", 0)

\* setIsFullscreen
setIsFullscreen(b) ==
  /\ isFullscreen' = b
  /\ pending' = pending \cup Changed(isFullscreen, b, "viewer")

\* The user acts on the window or on fullscreen while no file is being
\* read, and only once the browser has dispatched the events of the last
\* change, which it does in the same frame.
MayActOnScreen ==
  /\ MayAct
  /\ reads = <<>>
  /\ viewer.events = <<>>
  /\ Len(viewer.requests) < MaxRequests

\* The browser settles a request or dispatches an event once the page is at
\* rest.
BrowserTurn == Idle

Gesture(via) == [via |-> via, name |-> <<>>, key |-> "none"]

\* toggleFullscreen (STLViewer.tsx 105-120) up to the promise.
toggleFullscreen ==
  /\ MayActOnScreen
  /\ viewer' = [Quiet(viewer) EXCEPT !.requests =
                  Append(@, IF viewer.fullscreenElement THEN "exit" ELSE "enter")]
  /\ UNCHANGED <<appVars, isInitialized, phase, ren, pending, queue, loads,
                 lastLoad>>
  /\ Outside("toggle", Gesture("button"), noRoundTrip)

\* handleKeyDown (STLViewer.tsx 136-140) for the Escape key.
handleKeyDown ==
  /\ MayActOnScreen
  /\ viewer' = IF viewer.fullscreenElement
               THEN [Quiet(viewer) EXCEPT !.requests = Append(@, "escape")]
               ELSE Quiet(viewer)
  /\ UNCHANGED <<appVars, isInitialized, phase, ren, pending, queue, loads,
                 lastLoad>>
  /\ Outside("keydown", Gesture("escape"), noRoundTrip)

Settling(kinds) ==
  /\ BrowserTurn
  /\ viewer.requests # <<>>
  /\ Head(viewer.requests) \in kinds

settled(v) == [Quiet(v) EXCEPT !.requests = Tail(@)]

\* requestFullscreen() resolves: .then(() => setIsFullscreen(true)) (109-111).
\* A request of the element that already is fullscreen resolves at once.
requestGranted ==
  /\ Settling({"enter"})
  /\ viewer' = IF viewer.fullscreenElement THEN settled(viewer)
               ELSE laidOut(settled(viewer), TRUE)
  /\ setIsFullscreen(TRUE)
  /\ UNCHANGED <<appVars, isInitialized, phase, ren, queue, loads, lastLoad,
                 geometry, stats>>
  /\ trigger' = "granted"
  /\ input' = Gesture("enter")
  /\ roundTrip' = noRoundTrip

\* requestFullscreen() rejects: the .catch of lines 111-114.  The message
\* re-renders App, so the rejection counts against the bound on loader runs.
requestDenied ==
  /\ Settling({"enter"})
  /\ MayAct
  /\ ~viewer.fullscreenElement
  /\ viewer' = Logged(settled(viewer), "toggleFullscreen", "console.error", 0)
  /\ onError(FullscreenMsg)
  /\ UNCHANGED <<stlFile, isLoading, controls, reads, nextFid, isInitialized,
                 phase, ren, queue, loads, lastLoad>>
  /\ Outside("denied", Gesture("enter"), noRoundTrip)

\* document.exitFullscreen() settles: it resolves if the document had a
\* fullscreen element and rejects if not; only toggleFullscreen has a .then
\* (115-119), handleKeyDown has none (138).
exitSettled ==
  /\ Settling({"exit", "escape"})
  /\ viewer' = IF viewer.fullscreenElement
               THEN laidOut(settled(viewer), FALSE)
               ELSE settled(viewer)
  /\ IF viewer.fullscreenElement /\ Head(viewer.requests) = "exit"
     THEN setIsFullscreen(FALSE)
     ELSE UNCHANGED <<isFullscreen, pending>>
  /\ UNCHANGED <<appVars, isInitialized, phase, ren, queue, loads, lastLoad,
                 geometry, stats>>
  /\ trigger' = "exited"
  /\ input' = Gesture(Head(viewer.requests))
  /\ roundTrip' = noRoundTrip

Dispatching(e) ==
  /\ BrowserTurn
  /\ viewer.events # <<>>
  /\ Head(viewer.events) = e

dispatched(v) == [Quiet(v) EXCEPT !.events = Tail(@)]

\* A handler of 'fullscreenchange' that does nothing.
fullscreenChangeUnheard ==
  /\ Dispatching("fullscreenchange")
  /\ viewer' = dispatched(viewer)
  /\ UNCHANGED <<appVars, isInitialized, phase, ren, pending, queue, loads,
                 lastLoad, isFullscreen, geometry, stats, input>>
  /\ trigger' = "fullscreenchange"
  /\ roundTrip' = noRoundTrip

\* handleFullscreenChange (STLViewer.tsx 123-125)
handleFullscreenChange ==
  /\ Dispatching("fullscreenchange")
  /\ viewer' = dispatched(viewer)
  /\ setIsFullscreen(viewer.fullscreenElement)
  /\ UNCHANGED <<appVars, isInitialized, phase, ren, queue, loads, lastLoad,
                 geometry, stats, input>>
  /\ trigger' = "fullscreenchange"
  /\ roundTrip' = noRoundTrip

\* The window's 'resize' event reaches the listener of line 160, if one is
\* registered.
windowResized ==
  /\ Dispatching("resize")
  /\ viewer' = IF viewer.resizeListeners > 0
               THEN handleResize(dispatched(viewer))
               ELSE dispatched(viewer)
  /\ UNCHANGED <<appVars, isInitialized, phase, ren, pending, queue, loads,
                 lastLoad, isFullscreen, geometry, stats, input>>
  /\ trigger' = "resize"
  /\ roundTrip' = noRoundTrip

\* The user gives the window another size; the size of the screen is the
\* browser's own full-screen mode, where the viewport is the whole screen.
resizeWindow(size) ==
  /\ MayActOnScreen
  /\ ~viewer.fullscreenElement
  /\ viewer.requests = <<>>
  /\ size # viewer.window
  /\ viewer' = [Quiet(viewer) EXCEPT !.window = size,
                                     !.canvas = canvasOf(size, FALSE),
                                     !.events = Append(@, "resize")]
  /\ UNCHANGED <<appVars, isInitialized, phase, ren, pending, queue, loads,
                 lastLoad>>
  /\ Outside("window", Gesture("window"), noRoundTrip)

\* A file is uploaded while the browser owes the page no settlement and no
\* event.
uploadAtRest(kind) ==
  /\ viewer.requests = <<>>
  /\ viewer.events = <<>>
  /\ StartUpload(kind)

NextScreen ==
  \/ Mount
  \/ Render
  \/ InitCleanup
  \/ InitEffect
  \/ LoadEffect
  \/ ControlsEffect
  \/ \E kind \in {"valid", "malformed"} : uploadAtRest(kind)
  \/ \E i \in 1..MaxReads : ReadDone(i)
  \/ toggleFullscreen
  \/ handleKeyDown
  \/ requestGranted
  \/ requestDenied
  \/ exitSettled
  \/ handleFullscreenChange
  \/ windowResized
  \/ \E size \in WindowSizes : resizeWindow(size)

SpecScreen == Init /\ [][NextScreen]_vars

\* --------------------------------------------------------- normalization
\* Lines 203-214 of loadSTL, on the geometry STLLoader.parse returned.  A
\* number is <<n, d>> with d >= 0, standing for n / d: <<n, 0>> is Infinity
\* for n > 0, -Infinity for n < 0 and NaN for n = 0, so that the sums,
\* products and quotients below are those of IEEE 754 (2 / 0 = Infinity,
\* 0 * Infinity = NaN), without its rounding.
Num(n) == <<n, 1>>
NaN == <<0, 0>>
Infinity == <<1, 0>>
isNaN(a) == a[1] = 0 /\ a[2] = 0

Sign(n) == IF n > 0 THEN 1 ELSE IF n < 0 THEN -1 ELSE 0

\* Infinities and NaN kept in one form each.
Norm(a) == IF a[2] = 0 THEN <<Sign(a[1]), 0>> ELSE a

Plus(a, b) == Norm(<<a[1] * b[2] + b[1] * a[2], a[2] * b[2]>>)
Neg(a) == <<-a[1], a[2]>>
Minus(a, b) == Plus(a, Neg(b))
Times(a, b) == Norm(<<a[1] * b[1], a[2] * b[2]>>)
Over(a, b) ==
  IF b[1] < 0 THEN Norm(<<-a[1] * b[2], -a[2] * b[1]>>)
  ELSE Norm(<<a[1] * b[2], a[2] * b[1]>>)

\* a < b and a === b of JavaScript numbers: false when either is NaN.
Less(a, b) ==
  /\ ~isNaN(a) /\ ~isNaN(b)
  /\ IF a[2] = 0 /\ b[2] = 0 THEN a[1] < b[1] ELSE a[1] * b[2] < b[1] * a[2]
Equal(a, b) ==
  /\ ~isNaN(a) /\ ~isNaN(b)
  /\ IF a[2] = 0 \/ b[2] = 0 THEN a = b ELSE a[1] * b[2] = b[1] * a[2]

\* Math.min, Math.max: NaN if an argument is NaN.
MathMin(a, b) == IF isNaN(a) \/ isNaN(b) THEN NaN ELSE IF Less(b, a) THEN b ELSE a
MathMax(a, b) == IF isNaN(a) \/ isNaN(b) THEN NaN ELSE IF Less(a, b) THEN b ELSE a

Axes == 1..3

\* Box3.makeEmpty, Box3.expandByPoint, Box3.isEmpty, getCenter, getSize
emptyBox == <<[i \in Axes |-> Infinity], [i \in Axes |-> Neg(Infinity)]>>

expandByPoint(box, pt) ==
  <<[i \in Axes |-> MathMin(box[1][i], pt[i])],
    [i \in Axes |-> MathMax(box[2][i], pt[i])]>>

isEmpty(box) == \E i \in Axes : Less(box[2][i], box[1][i])

getCenter(box) ==
  IF isEmpty(box) THEN [i \in Axes |-> Num(0)]
  ELSE [i \in Axes |-> Times(Plus(box[1][i], box[2][i]), <<1, 2>>)]

getSize(box) ==
  IF isEmpty(box) THEN [i \in Axes |-> Num(0)]
  ELSE [i \in Axes |-> Minus(box[2][i], box[1][i])]

RECURSIVE setFromPoints(_, _)
setFromPoints(box, pts) ==
  IF pts = <<>> THEN box
  ELSE setFromPoints(expandByPoint(box, Head(pts)), Tail(pts))

\* BufferGeometry.computeBoundingBox (line 204)
computeBoundingBox(g) ==
  [g EXCEPT !.boundingBox = setFromPoints(emptyBox, g.position)]

\* BufferGeometry.translate and .scale go through applyMatrix4, which
\* computes a bounding box that is not null anew.
applyMatrix4(g, position) ==
  LET h == [g EXCEPT !.position = position]
  IN IF h.boundingBox = <<>> THEN h ELSE computeBoundingBox(h)

translate(g, t) ==
  applyMatrix4(g, [k \in 1..Len(g.position) |->
                     [i \in Axes |-> Plus(g.position[k][i], t[i])]])

scaleBy(g, k) ==
  applyMatrix4(g, [j \in 1..Len(g.position) |->
                     [i \in Axes |-> Times(g.position[j][i], k)]])

\* Lines 203-214: centre, then scale to the target size 2.
normalize(g) ==
  LET a == computeBoundingBox(g)
      center == getCenter(a.boundingBox)
      b == translate(a, [i \in Axes |-> Neg(center[i])])
      size == getSize(b.boundingBox)
      maxDim == MathMax(MathMax(size[1], size[2]), size[3])
      scale == Over(Num(2), maxDim)
  IN scaleBy(b, scale)

\* The vertices a parsed file may hold.
Points == {<<Num(x), Num(y), Num(z)>> : x \in {0, 1, 3}, y \in {0, 2}, z \in {0, 2}}

Positions == UNION {[1..n -> Points] : n \in 0..MaxVertices}

\* loader.parse(stlFile.arrayBuffer) returned (line 201).
InitNormalize ==
  /\ InitPage
  /\ stats = noStats
  /\ \E p \in Positions :
       geometry = [position |-> p, boundingBox |-> <<>>, stage |-> "parsed"]

Normalize ==
  /\ geometry.stage = "parsed"
  /\ geometry' = [normalize(geometry) EXCEPT !.stage = "normalized"]
  /\ UNCHANGED <<stlFile, isLoading, error, controls, reads, nextFid,
                 isInitialized, phase, ren, pending, queue, viewer, loads,
                 lastLoad, trigger, input, roundTrip, isFullscreen, stats>>

NextNormalize == Normalize

SpecNormalize == InitNormalize /\ [][NextNormalize]_vars

\* ------------------------------------------------------------ file intake
\* The names of the files the user selects or drops, character by character.
FileNames ==
  {StlName, <<"A", ".", "S", "T", "L">>, <<"a", ".", "S", "t", "l">>,
   <<"a", ".", "t", "x", "t">>, <<"s", "t", "l">>,
   <<"a", ".", "s", "t", "l", ".", "x">>}

Files == [name : FileNames, kind : FileKinds]

\* A name compared as it was typed.
asTyped(s) == s

\* String.prototype.toLowerCase, on the letters of FileNames.
toLowerCase(s) ==
  [i \in 1..Len(s) |->
     CASE s[i] = "A" -> "a"
       [] s[i] = "S" -> "s"
       [] s[i] = "T" -> "t"
       [] s[i] = "L" -> "l"
       [] OTHER -> s[i]]

\* String.prototype.endsWith
endsWith(s, suffix) ==
  /\ Len(s) >= Len(suffix)
  /\ SubSeq(s, Len(s) - Len(suffix) + 1, Len(s)) = suffix

\* file && file.name.toLowerCase().endsWith('.stl') (FileUpload.tsx 15, 35)
passes(file) == endsWith(toLowerCase(file.name), <<".", "s", "t", "l">>)

\* A handler that returns without calling onFileUpload.
ignored ==
  /\ viewer' = Quiet(viewer)
  /\ UNCHANGED <<appVars, isInitialized, phase, ren, pending, queue, loads,
                 lastLoad>>

\* FileUpload.tsx 13-18
handleFileSelect(file) ==
  /\ MayAct
  /\ Len(reads) < MaxReads
  /\ IF passes(file)
     THEN /\ handleFileUpload(file)
          /\ Outside("upload", [via |-> "select", name |-> file.name,
                                key |-> "none"], noRoundTrip)
     ELSE /\ ignored
          /\ Outside("ignored", [via |-> "select", name |-> file.name,
                                 key |-> "none"], noRoundTrip)

\* FileUpload.tsx 30-38; isDragOver, which handleDrop clears, only picks a
\* class name of the drop zone.
handleDrop(file) ==
  /\ MayAct
  /\ Len(reads) < MaxReads
  /\ IF passes(file)
     THEN /\ handleFileUpload(file)
          /\ Outside("upload", [via |-> "drop", name |-> file.name,
                                key |-> "none"], noRoundTrip)
     ELSE /\ ignored
          /\ Outside("ignored", [via |-> "drop", name |-> file.name,
                                 key |-> "none"], noRoundTrip)

NextIntake ==
  \/ Mount
  \/ Render
  \/ InitCleanup
  \/ InitEffect
  \/ LoadEffect
  \/ ControlsEffect
  \/ \E file \in Files : handleFileSelect(file)
  \/ \E file \in Files : handleDrop(file)
  \/ \E i \in 1..MaxReads : ReadDone(i)

SpecIntake == Init /\ [][NextIntake]_vars

\* ------------------------------------------------------- the statistics
\* The length of a well-formed binary STL file of t triangles: a header of
\* 80 bytes, a count of 4 bytes and 50 bytes for each triangle.
binarySTL(t) == 80 + 4 + 50 * t

\* The count the file itself holds.
trianglesHeld(byteLength) == (byteLength - 84) \div 50

\* Math.floor(stlFile.arrayBuffer.byteLength / 50) (StatsOverlay.tsx 14); the
\* quotient of two integers below 2^53 is floored exactly.
triangleCount(byteLength) == byteLength \div 50

\* App has stored the buffer of a binary STL file of t triangles.
InitStats ==
  /\ InitPage
  /\ geometry = noGeometry
  /\ \E t \in 0..MaxTriangles :
       stats = [triangles |-> t, byteLength |-> binarySTL(t),
                triangleCount |-> 0, stage |-> "given"]

\* StatsOverlay renders (StatsOverlay.tsx 9-14).
StatsOverlay ==
  /\ stats.stage = "given"
  /\ stats' = [stats EXCEPT !.triangleCount = triangleCount(stats.byteLength),
                            !.stage = "shown"]
  /\ UNCHANGED <<stlFile, isLoading, error, controls, reads, nextFid,
                 isInitialized, phase, ren, pending, queue, viewer, loads,
                 lastLoad, trigger, input, roundTrip, isFullscreen, geometry>>

NextStats == StatsOverlay

SpecStats == InitStats /\ [][NextStats]_vars

\* ------------------------------------------------------------ the sliders
\* <input type="range" min max step> (FileUpload.tsx 249-258, 270-279), in
\* tenths.
sliders ==
  [lightingIntensity |-> [min |-> 0, max |-> 20, step |-> 1],
   rotationSpeed |-> [min |-> 0, max |-> 50, step |-> 5]]

\* Where the user drags or keys a slider to, in tenths, before the input
\* element makes a value of it.
RawPositions == {-5, 0, 7, 13, 20, 26, 50, 57}

\* A slider that hands on the position as it is.
rawValue(key, raw) == raw

\* e.target.value of a range input, through parseFloat: the position is
\* clamped to [min, max] and rounded to the nearest step above min that does
\* not pass max.
rangeValue(key, raw) ==
  LET r == sliders[key]
      clamped == IF raw < r.min THEN r.min ELSE IF raw > r.max THEN r.max ELSE raw
      steps == (2 * (clamped - r.min) + r.step) \div (2 * r.step)
      snapped == r.min + steps * r.step
  IN IF snapped > r.max THEN snapped - r.step ELSE snapped

\* The user acts while the bound on loader runs of this section leaves room.
SliderTurn == Idle /\ loads + Len(reads) < MaxSliderLoads

\* A file named *.stl is selected while no other is being read.
sliderUpload ==
  /\ SliderTurn
  /\ reads = <<>>
  /\ handleFileUpload([name |-> StlName, kind |-> "valid"])
  /\ Outside("upload", [via |-> "select", name |-> StlName, key |-> "none"],
             noRoundTrip)

\* onChange of a slider: handleSliderChange(key, parseFloat(e.target.value)).
dragSlider(key, raw) ==
  /\ SliderTurn
  /\ ren.stlFile # NoFile
  /\ onControlsChange([ren.controls EXCEPT ![key] = rangeValue(key, raw)])
  /\ Outside("controls", Panel(key), noRoundTrip)

\* The Reset button.
sliderReset ==
  /\ SliderTurn
  /\ ~ren.isLoading
  /\ resetState

NextSliders ==
  \/ Mount
  \/ Render
  \/ InitCleanup
  \/ InitEffect
  \/ LoadEffect
  \/ ControlsEffect
  \/ sliderUpload
  \/ ReadDone(1)
  \/ \E key \in DOMAIN sliders, raw \in RawPositions : dragSlider(key, raw)
  \/ sliderReset

SpecSliders == Init /\ [][NextSliders]_vars

\* -------------------------------------------------- Reset after a colour
\* A user who loads a file, picks background colours and presses Reset.
ResetTurn == Idle /\ loads + Len(reads) < MaxResetLoads

resetUpload ==
  /\ ResetTurn
  /\ reads = <<>>
  /\ handleFileUpload([name |-> StlName, kind |-> "valid"])
  /\ Outside("upload", [via |-> "select", name |-> StlName, key |-> "none"],
             noRoundTrip)

\* onClick of a background preset: handleColorChange('backgroundColor', c).
pickBackground(value) ==
  /\ ResetTurn
  /\ ren.stlFile # NoFile
  /\ onControlsChange([ren.controls EXCEPT !.backgroundColor = value])
  /\ Outside("controls", Panel("backgroundColor"), noRoundTrip)

\* The Reset button.
pressReset ==
  /\ ResetTurn
  /\ ~ren.isLoading
  /\ resetState

NextReset ==
  \/ Mount
  \/ Render
  \/ InitCleanup
  \/ InitEffect
  \/ LoadEffect
  \/ ControlsEffect
  \/ resetUpload
  \/ ReadDone(1)
  \/ \E value \in BackgroundColors : pickBackground(value)
  \/ pressReset

SpecReset == Init /\ [][NextReset]_vars

\* ------------------------------------------------ chains of re-renders
\* One external event at a time: uploads of every kind, a toggle, a background
\* preset, Reset and fullscreen requests the browser grants or denies, each
\* arriving when the page is at rest.
ScreenAtEase == viewer.requests = <<>> /\ viewer.events = <<>>

chainUpload(kind) ==
  /\ ScreenAtEase
  /\ reads = <<>>
  /\ StartUpload(kind)

chainControl ==
  /\ ScreenAtEase
  /\ \/ handleToggle("showWireframe")
     \/ \E value \in BackgroundColors :
          handleColorChange("backgroundColor", value)

chainReset == ScreenAtEase /\ handleReset

NextChain ==
  \/ Mount
  \/ Render
  \/ InitCleanup
  \/ InitEffect
  \/ LoadEffect
  \/ ControlsEffect
  \/ \E kind \in FileKinds : chainUpload(kind)
  \/ ReadDone(1)
  \/ chainControl
  \/ chainReset
  \/ toggleFullscreen
  \/ requestGranted
  \/ requestDenied
  \/ exitSettled
  \/ handleFullscreenChange
  \/ windowResized

\* React performs the render it has scheduled: the step of Render, told by
\* what it does to pending.
Rendering ==
  /\ phase = "mounted"
  /\ queue = <<>>
  /\ pending # {}
  /\ pending' = {}

\* React runs the cleanup or the effect at the head of the commit under way:
\* the step of InitCleanup, InitEffect, LoadEffect or ControlsEffect, told by
\* what it does to queue.
Flushing ==
  /\ queue # <<>>
  /\ queue' = Tail(queue)

\* React runs every render it has scheduled and every effect of a commit.
SpecChain ==
  /\ Init
  /\ [][NextChain]_vars
  /\ WF_pending(Rendering)
  /\ WF_queue(Flushing)

\* ------------------------------------------- the showWireframe round trip
\* One file is uploaded and the showWireframe switch (FileUpload.tsx 159-167)
\* is flipped again and again.
toggleWireframe ==
  /\ Idle
  /\ ren.stlFile # NoFile
  /\ loads < MaxToggleLoads
  /\ onControlsChange([ren.controls EXCEPT !.showWireframe = ~@])
  /\ Outside("controls", Panel("showWireframe"), oneMoreToggle)

NextRoundTrip ==
  \/ Mount
  \/ Render
  \/ InitCleanup
  \/ InitEffect
  \/ LoadEffect
  \/ ControlsEffect
  \/ StartUpload("valid")
  \/ ReadDone(1)
  \/ toggleWireframe

SpecRoundTrip == Init /\ [][NextRoundTrip]_vars

\* ----------------------------------------------------------- vocabulary
Kinds == {"mesh", "wireframe", "normals"}

\* The children of the live scene that are of kind k.
InScene(k) == {id \in viewer.children : viewer.objs[id].kind = k}

Refs == {viewer.meshRef, viewer.wireframeRef, viewer.normalsHelperRef} \ {NoObj}

\* The guard of the load effect (STLViewer.tsx 196) passes.
LoaderRuns == viewer.sceneRef /\ ren.stlFile # NoFile /\ ren.isInitialized

\* The last action was a run of loadSTL that got past the parse.
JustLoaded == viewer.log # <<>> /\ viewer.log[1].by = "loadSTL"

\* The positions in the last handler's calls of the calls named in ops.
CallsOf(ops) == {i \in 1..Len(viewer.log) : viewer.log[i].op \in ops}

\* No state update waits for a render and no effect waits to run.
Quiescent == phase = "mounted" /\ queue = <<>> /\ pending = {}

\* What an object of the scene is made of, its visibility aside.
Data(o) == [o EXCEPT !.visible = TRUE]

\* ----------------------------------------------------------------- claims

\* C1: in every reachable state the live scene holds at most one mesh
\* surface, at most one wireframe overlay and at most one normals overlay.
AtMostOneOfEachKind == \A k \in Kinds : Cardinality(InScene(k)) <= 1

\* C1 witness: a mesh was replaced: one mesh is in the scene and an older one
\* is no longer.
MeshReplaced ==
  /\ Cardinality(InScene("mesh")) = 1
  /\ \E id \in DOMAIN viewer.objs :
       viewer.objs[id].kind = "mesh" /\ id \notin viewer.children

\* C2: right after the second of two successful loads in succession the scene
\* holds exactly the mesh, wireframe and normals overlay of that load, built
\* from its buffer and undisposed; every other object is out of the scene with
\* its geometry and material disposed; and the three objects of the first set
\* were removed and disposed before the first object of the second was added.
SecondLoadReplacesFirst ==
  (JustLoaded /\ lastLoad.streak >= 2) =>
    /\ viewer.children = Refs
    /\ \A k \in Kinds : Cardinality(InScene(k)) = 1
    /\ viewer.objs[viewer.meshRef].kind = "mesh"
    /\ viewer.objs[viewer.wireframeRef].kind = "wireframe"
    /\ viewer.objs[viewer.normalsHelperRef].kind = "normals"
    /\ \A id \in viewer.children :
         /\ viewer.objs[id].src = ren.stlFile.fid
         /\ viewer.objs[id].geo = 0
         /\ viewer.objs[id].mat = 0
    /\ \A id \in DOMAIN viewer.objs \ viewer.children :
         viewer.objs[id].geo >= 1 /\ viewer.objs[id].mat >= 1
    /\ Cardinality(CallsOf({"remove"})) = Cardinality(Kinds)
    /\ Cardinality(CallsOf({"dispose"})) = Cardinality(Kinds)
    /\ \A i \in CallsOf({"remove", "dispose"}) : \A j \in CallsOf({"add"}) :
         /\ i < j
         /\ viewer.log[i].id < viewer.log[j].id

\* C2 witness: two successful loads in succession, of two different buffers.
TwoLoadsInSuccession ==
  /\ JustLoaded
  /\ lastLoad.streak >= 2
  /\ \E id \in DOMAIN viewer.objs : viewer.objs[id].src # ren.stlFile.fid

\* C3: a run of loadSTL on a buffer the parser throws on reports the error
\* through onError and leaves every ref and every scene object as it was.
ParseFailureKeepsDisplay ==
  [][(Running("load") /\ LoaderRuns /\ ~ren.stlFile.ok) =>
       /\ Quiet(viewer') = Quiet(viewer)
       /\ error' = ParseMsg
       /\ lastLoad'.outcome = "parse"]_vars

\* C3 witness: a parse has just failed while an earlier mesh is displayed.
ParseFailedOverMesh ==
  /\ lastLoad.outcome = "parse"
  /\ error = ParseMsg
  /\ viewer.meshRef \in viewer.children
  /\ viewer.wireframeRef \in viewer.children
  /\ viewer.normalsHelperRef \in viewer.children
  /\ viewer.objs[viewer.meshRef].geo = 0

\* C4: a run of loadSTL that fails, at the parse or at any later statement,
\* leaves every ref and every scene object as it was before the run.
FailedLoadKeepsState ==
  [][(Running("load") /\ LoaderRuns /\ lastLoad'.outcome # "ok") =>
       Quiet(viewer') = Quiet(viewer)]_vars

\* C5: the cleanup cancels the frame callback before it disposes anything,
\* no frame callback is left scheduled once the controller, the renderer or
\* an object of the scene is disposed, and animate never runs against one.
NoFrameOnDisposed ==
  /\ \A i \in CallsOf({"cancelAnimationFrame"}) :
       \A j \in CallsOf({"controls.dispose", "renderer.dispose", "dispose"}) :
         viewer.log[j].by = "cleanup" => i < j
  /\ (\E j \in 1..Len(viewer.log) : viewer.log[j].by = "cleanup") =>
       /\ CallsOf({"cancelAnimationFrame"}) # {}
       /\ viewer.rafPending = {}
  /\ (viewer.rafPending # {} \/ (viewer.log # <<>> /\ viewer.log[1].by = "animate")) =>
       /\ viewer.controlsDisposed = 0
       /\ viewer.rendererDisposed = 0
       /\ \A id \in viewer.children \cup Refs :
            viewer.objs[id].geo = 0 /\ viewer.objs[id].mat = 0

\* C5 witness: the cleanup has just run on a viewer whose loop had served a
\* frame, and disposed the controller, the renderer and a loaded mesh.
TornDownAfterFrames ==
  /\ viewer.log # <<>>
  /\ viewer.log[1].by = "cleanup"
  /\ viewer.animationFrameRef >= 2
  /\ viewer.controlsDisposed >= 1
  /\ viewer.rendererDisposed >= 1
  /\ viewer.meshRef # NoObj
  /\ viewer.objs[viewer.meshRef].geo >= 1

\* C6: from the end of initialization until unmount, whenever the page is at
\* rest exactly one frame callback is scheduled.
LoopAliveWhileMounted ==
  (Quiescent /\ isInitialized) => Cardinality(viewer.rafPending) = 1

\* C7: the initThreeJS effect run again by an initialized viewer calls
\* nothing and changes nothing but the resize listener it re-registers, and
\* never are two frame callbacks scheduled at once.
ReinitIsNoOp ==
  [][/\ (Running("init") /\ ren.isInitialized) =>
          /\ viewer' = [Logged(Quiet(viewer), "effect", "initThreeJS", 0)
                          EXCEPT !.resizeListeners = @ + 1]
          /\ isInitialized' = isInitialized
          /\ pending' = pending
     /\ Cardinality(viewer'.rafPending) <= 1]_vars

\* C7 witness: the effect has just called initThreeJS in an initialized
\* viewer, after a change of the background colour.
ReinitCalled ==
  /\ ren.isInitialized
  /\ viewer.log = <<Call("effect", "initThreeJS", 0)>>
  /\ viewer.background # ren.controls.backgroundColor

\* The dispose calls made so far on the objects the loader built.
Disposals == [id \in DOMAIN viewer.objs |-> <<viewer.objs[id].geo, viewer.objs[id].mat>>]

\* C8: from a control-state change until the next outside event the loader
\* does not run and no mesh, wireframe or normals overlay is created,
\* removed or disposed.
ControlChangeKeepsObjects ==
  [][trigger' = "controls" =>
       /\ loads' = loads
       /\ DOMAIN viewer'.objs = DOMAIN viewer.objs
       /\ viewer'.children = viewer.children
       /\ Disposals' = Disposals]_vars

\* C9: in every quiescent state of an initialized viewer the scene shows the
\* current ControlState, on the objects a load created as on the others.
VisualsMatchControls ==
  (Quiescent /\ isInitialized) =>
    /\ \A id \in viewer.children \cup Refs :
         /\ viewer.objs[id].kind = "mesh" =>
              viewer.objs[id].color = controls.modelColor
         /\ viewer.objs[id].kind = "wireframe" =>
              viewer.objs[id].visible = controls.showWireframe
         /\ viewer.objs[id].kind = "normals" =>
              viewer.objs[id].visible = controls.showNormals
    /\ viewer.gridVisible = controls.showGrid
    /\ viewer.axesVisible = controls.showAxes
    /\ viewer.background = controls.backgroundColor
    /\ viewer.ambient = controls.lightingIntensity
    /\ viewer.directional = controls.lightingIntensity

\* C9 witness: a quiescent viewer that shows a loaded set under controls
\* changed from their defaults.
ShowsChangedControls ==
  /\ Quiescent
  /\ isInitialized
  /\ lastLoad.outcome = "ok"
  /\ Cardinality(viewer.children) = Cardinality(Kinds)
  /\ controls # defaultControls

\* C10: with a mesh loaded and a rotationSpeed above 0 set from the panel,
\* a frame callback is scheduled and rotates the mesh by that rotationSpeed.
RotationFollowsControls ==
  (Quiescent /\ viewer.meshRef # NoObj /\ controls.rotationSpeed > 0) =>
    /\ viewer.rafPending # {}
    /\ viewer.animateControls.rotationSpeed = controls.rotationSpeed

\* C11 (as stated; refuted under SpecRoundTrip): after showWireframe was
\* switched to true, to false and to true again over a loaded mesh, with no
\* error in between, the wireframe is shown again and the mesh, the wireframe
\* and the normals helper are the objects they were before the three toggles,
\* with the same data.
RoundTripKeepsObjects ==
  (/\ Quiescent
   /\ roundTrip.n = 3
   /\ roundTrip.refs[1] # NoObj
   /\ controls.showWireframe
   /\ error = NoError)
  => /\ viewer.objs[viewer.wireframeRef].visible
     /\ <<viewer.meshRef, viewer.wireframeRef, viewer.normalsHelperRef>>
          = roundTrip.refs
     /\ \A i \in 1..3 :
          Data(viewer.objs[roundTrip.refs[i]]) = Data(roundTrip.objs[roundTrip.refs[i]])

\* The three.js state a load or a control-state application can touch.
SceneState(v) ==
  <<v.children, v.objs, v.ambient, v.directional, v.gridVisible, v.axesVisible,
    v.background>>

\* C12 (as stated; refuted): once the teardown has run (the renderer and the
\* orbit controller are disposed), a run of the load effect or of the controls
\* effect fails or is a no-op: it adds no object to the scene, changes none
\* and disposes none.
NothingAfterTeardown ==
  [][(/\ viewer.rendererDisposed > 0
      /\ Running("load") \/ Running("controls"))
     => SceneState(viewer') = SceneState(viewer)]_vars

\* C13 (as stated; refuted): in no reachable state are two file reads in
\* flight at once.
OneReadAtATime == Len(reads) <= 1

\* C14 (as stated; refuted): a run of loadSTL that follows a run the parser
\* threw in is a run on another buffer: a buffer whose load failed is not
\* parsed again.
NoRetryOfFailedBuffer ==
  [][(loads' = loads + 1 /\ lastLoad.outcome = "parse")
     => lastLoad'.file # lastLoad.file]_vars

\* A name of at least four characters whose last four are a dot and the
\* letters s, t, l in either case.
StlExtension(name) ==
  LET n == Len(name) IN
  /\ n >= 4
  /\ name[n - 3] = "."
  /\ name[n - 2] \in {"s", "S"}
  /\ name[n - 1] \in {"t", "T"}
  /\ name[n] \in {"l", "L"}

\* C15: handleFileSelect and handleDrop hand a file to onFileUpload (a read
\* starts and isLoading is set) if and only if its name ends in .stl in any
\* letter case; for every other file they start no read and leave stlFile,
\* isLoading and error as they were.
OnlyStlIsTakenIn ==
  [][(Idle /\ input'.via \in {"select", "drop"})
     => IF StlExtension(input'.name)
        THEN /\ Len(reads') = Len(reads) + 1
             /\ isLoading'
             /\ trigger' = "upload"
        ELSE /\ UNCHANGED <<stlFile, isLoading, error, reads>>
             /\ trigger' = "ignored"]_vars

\* C15 witness: a file named A.STL was dropped and its read is in flight.
UpperCaseNameTakenIn ==
  /\ trigger = "upload"
  /\ input = [via |-> "drop", name |-> <<"A", ".", "S", "T", "L">>, key |-> "none"]
  /\ Len(reads) = 1
  /\ isLoading

\* The fields of the control state that a step changes.
Differ == {f \in DOMAIN defaultControls : controls'[f] # controls[f]}

\* A step of handleToggle, handleColorChange or handleSliderChange.
PanelStep == Idle /\ "controls" \in pending' /\ input'.via = "panel"

\* C20 (as stated; refuted): each action of the panel produces a control
\* state that differs from the previous one in exactly the field named by
\* its key.
ExactlyTheKeyedFieldDiffers == [][PanelStep => Differ = {input'.key}]_vars

\* C20 (amended): each action of the panel produces a control state in which
\* every field but the one named by its key keeps its value; handleToggle
\* negates the keyed field.
OnlyTheKeyedFieldMayDiffer ==
  [][PanelStep =>
       /\ Differ \subseteq {input'.key}
       /\ input'.key \in ToggleKeys
            => controls'[input'.key] = ~controls[input'.key]]_vars

\* C20 witness: the model colour was changed over the default control state
\* and the seven other fields hold their defaults.
OnlyModelColorChanged ==
  /\ input = Panel("modelColor")
  /\ "controls" \in pending
  /\ controls = [defaultControls EXCEPT !.modelColor = "#10b981"]

\* C16 (as stated; refuted under SpecScreen): from the rejection of a request
\* to enter fullscreen until the next event, the one message of
\* toggleFullscreen is the error reported, isFullscreen stays false, and the
\* scene, its objects and the requested frame callbacks are what they were
\* before.
RejectionChangesNothingElse ==
  [][trigger' = "denied" =>
       /\ error' = FullscreenMsg
       /\ ~isFullscreen'
       /\ SceneState(viewer') = SceneState(viewer)
       /\ Refs' = Refs
       /\ viewer'.rafPending = viewer.rafPending]_vars

\* The browser owes the page no settlement of a fullscreen request and no
\* event.
ScreenAtRest == viewer.requests = <<>> /\ viewer.events = <<>>

\* C18 (as stated; refuted under SpecScreen): once a change of the canvas's
\* on-screen size (a window resize, entering or leaving fullscreen) has been
\* handled, the camera's aspect is clientWidth / clientHeight of the canvas
\* and the renderer's size is the client size of the canvas.
SurfaceFollowsCanvas ==
  (Quiescent /\ isInitialized /\ ScreenAtRest)
  => /\ viewer.aspect[1] * viewer.canvas[2] = viewer.canvas[1] * viewer.aspect[2]
     /\ viewer.rendererSize = viewer.canvas

\* C19: while the viewer is mounted and no fullscreenchange event waits to be
\* handled, isFullscreen is true exactly when the document has a fullscreen
\* element; so after leaving fullscreen, by the Escape key or by the button,
\* there is no fullscreen element and isFullscreen is false.
FullscreenFlagFollowsDocument ==
  (phase = "mounted" /\ \A i \in 1..Len(viewer.events) :
                          viewer.events[i] # "fullscreenchange")
  => isFullscreen = viewer.fullscreenElement

\* C19 witness: fullscreen was left by the Escape key, the fullscreenchange
\* event of the exit has been handled, and the flag is false.
LeftByEscape ==
  /\ trigger = "fullscreenchange"
  /\ input = Gesture("escape")
  /\ viewer.events = <<>>
  /\ ~viewer.fullscreenElement
  /\ ~isFullscreen

\* C17 (as stated; refuted under SpecNormalize): after the normalization of
\* a parsed geometry, whatever its extent, the centre of its bounding box is
\* the origin and the largest dimension of the box is 2.
NormalizedToTargetSize ==
  geometry.stage = "normalized" =>
    LET box == computeBoundingBox(geometry).boundingBox
        center == getCenter(box)
        size == getSize(box)
    IN /\ \A i \in Axes : Equal(center[i], Num(0))
       /\ Equal(MathMax(MathMax(size[1], size[2]), size[3]), Num(2))

\* C21: whatever the sliders were dragged to and however often Reset was
\* pressed, lightingIntensity is within [0, 2] and rotationSpeed within
\* [0, 5] (both in tenths here).
SlidersWithinRange ==
  /\ controls.lightingIntensity \in 0..20
  /\ controls.rotationSpeed \in 0..50

\* C21 witness: the rotation slider was dragged and both sliders stand at
\* the upper end of their ranges.
BothSlidersAtMax ==
  /\ input = Panel("rotationSpeed")
  /\ controls.lightingIntensity = 20
  /\ controls.rotationSpeed = 50

\* C22: for a well-formed binary STL buffer of T triangles, of 84 + 50 * T
\* bytes, the triangle count StatsOverlay shows is T + 1.
ShownCountIsOneMore ==
  stats.stage = "shown" =>
    /\ stats.byteLength = 84 + 50 * stats.triangles
    /\ stats.triangleCount = stats.triangles + 1

\* C22 witness: a buffer of 12 triangles, 684 bytes, is shown with count 13.
TwelveShownAsThirteen ==
  /\ stats.stage = "shown"
  /\ stats.triangles = 12
  /\ stats.byteLength = 684
  /\ stats.triangleCount = 13

\* C23: no resource is disposed more than once: dispose is called at most once
\* on the renderer, on the orbit controller, and on the geometry and the
\* material of each mesh, wireframe and normals helper.
DisposedAtMostOnce ==
  /\ viewer.rendererDisposed <= 1
  /\ viewer.controlsDisposed <= 1
  /\ \A id \in DOMAIN viewer.objs :
       viewer.objs[id].geo <= 1 /\ viewer.objs[id].mat <= 1

\* C24: Reset never removes or disposes the loaded mesh, wireframe or normals
\* helper: from the Reset click through the commits and effects it causes,
\* the children of the scene and the dispose counts of every object stay as
\* they were.
ResetKeepsObjects ==
  [][trigger' = "reset" =>
       /\ viewer'.children = viewer.children
       /\ Disposals' = Disposals]_vars

\* C25: while a file read started by handleFileUpload is pending isLoading is
\* true, and once every started read has resolved or rejected it is false.
LoadingWhileReading == isLoading <=> reads # <<>>

\* C26: the chain of re-renders and effect runs that an external event starts
\* is finite: whenever a state update or an effect is pending, the page
\* reaches a state in which none is, also when the load effect reports a
\* parse error through onError and that update runs the load effect again.
ChainComesToRest ==
  (pending # {} \/ queue # <<>>) ~> (pending = {} /\ queue = <<>>)

\* C26 witness: the read of a malformed file has resolved, the loader has
\* failed to parse it twice, and nothing is pending.
AtRestAfterParseError ==
  /\ Quiescent
  /\ trigger = "read"
  /\ error = ParseMsg
  /\ lastLoad.outcome = "parse"
  /\ loads = 2
====
